---- MODULE Spec2Model ----
\* Model of MatchContributionDialog.tsx: the dialog's React state
\* (selectedContribution, isConfirming, isSubmitting), the candidate query,
\* the two commit paths (ConfirmContributionForm / updateRows) with their
\* requests in flight, and the Apollo cache fields the dialog modifies.
EXTENDS Integers, Sequences, FiniteSets, TLC

\* ---------------------------------------------------------------- bounds
MaxRequests == 3      \* commit requests issued by one dialog instance
MaxInitCount == 1     \* initial value range of the import's stats counters
MaxAmount == 1200     \* largest row amount (in cents) of the range checked

\* ------------------------------------------------------------- constants
PENDING == "PENDING"
PAID == "PAID"
NoStatus == ""        \* an order whose status field is unset (falsy)
RowId == "row-1"
ImportId == "import-1"

\* React.useState(null): the null selection; null?.status is falsy
Null == [id |-> "null", legacyId |-> 0, status |-> NoStatus]

\* orders the host's lookup service can return (nodes of the query)
Candidates ==
  { [id |-> "o1", legacyId |-> 101, status |-> PENDING],
    [id |-> "o2", legacyId |-> 102, status |-> PAID],
    [id |-> "o3", legacyId |-> 103, status |-> NoStatus],
    [id |-> "o4", legacyId |-> 104, status |-> PENDING] }

\* values of the status filter of the Filterbar; the default is [PENDING]
StatusFilters == { "PENDING", "PAID", "ANY" }

VARIABLES
  selectedContribution,  \* useState(null)
  isConfirming,          \* useState(false)
  isSubmitting,          \* useState(false)
  statusFilter,          \* queryFilter.values.status
  query,                 \* useQuery result: [state, nodes]
  requests,              \* every commit request issued, with its state
  rowOrder,              \* cache: row.order
  stats,                 \* cache: transactionsImport.stats
  stats0,                \* the stats when the dialog was opened
  toasts,                \* number of toasts shown
  closed,                \* number of invocations of onClose
  calls,                 \* the outward calls made so far, in order
  valueInCents,          \* row.amount.valueInCents
  amountFilter,          \* the amount filter computed for the row
  rawValue,              \* row.rawValue
  csvConfig,             \* transactionsImport.csvConfig: << >> when null
  rawValueList           \* the raw-value entries rendered in the list

vars == << selectedContribution, isConfirming, isSubmitting, statusFilter,
           query, requests, rowOrder, stats, stats0, toasts, closed,
           calls, valueInCents, amountFilter, rawValue, csvConfig,
           rawValueList >>

\* the row and import props and what is computed from them alone
fnVars == << valueInCents, amountFilter, rawValue, csvConfig, rawValueList >>

\* -------------------------------------------------- getAmountRangeFilter
RECURSIVE Log10Floor(_)
\* Math.floor(Math.log10(n)) for an integer n >= 1
Log10Floor(n) == IF n < 10 THEN 0 ELSE 1 + Log10Floor(n \div 10)

RECURSIVE Pow10(_)
Pow10(n) == IF n = 0 THEN 1 ELSE 10 * Pow10(n - 1)

\* lodash floor(number, precision) for precision <= 0: the exponent of the
\* number is shifted by precision, Math.floor is applied, and the exponent is
\* shifted back. The number is given in tenths (tenths = 10 * number).
floor(tenths, precision) ==
  (tenths \div Pow10(1 - precision)) * Pow10(0 - precision)

\* lodash ceil(number, precision), as floor but with Math.ceil
ceil(tenths, precision) ==
  ((tenths + Pow10(1 - precision) - 1) \div Pow10(1 - precision))
     * Pow10(0 - precision)

\* the filter without the -/+20% margins
getAmountRangeFilterNoMargin(v) ==
  LET precision == 0 - Log10Floor(v)
  IN [type |-> "IS_BETWEEN",
      gte |-> floor(v * 10, precision),
      lte |-> ceil(v * 10, precision)]

\* the filter with the two factors exchanged
getAmountRangeFilterSwapped(v) ==
  LET precision == 0 - Log10Floor(v)
  IN [type |-> "IS_BETWEEN",
      gte |-> floor(v * 12, precision),
      lte |-> ceil(v * 8, precision)]

\* the filter with the precision taken from the number of digits
getAmountRangeFilterCoarse(v) ==
  LET precision == 0 - (Log10Floor(v) + 1)
  IN [type |-> "IS_BETWEEN",
      gte |-> floor(v * 8, precision),
      lte |-> ceil(v * 12, precision)]

\* valueInCents * 0.8 is 8 * valueInCents tenths, * 1.2 is 12 * valueInCents
getAmountRangeFilter(v) ==
  LET precision == 0 - Log10Floor(v)
  IN [type |-> "IS_BETWEEN",
      gte |-> floor(v * 8, precision),
      lte |-> ceil(v * 12, precision)]

\* no amount filter computed yet
NoFilter == [type |-> "NONE", gte |-> 0, lte |-> 0]

\* the amounts of the doc comment of getAmountRangeFilter
DocAmounts == { 123, 123456 }

Amounts == (1..MaxAmount) \cup DocAmounts

\* ------------------------------------------------- filterRawValueEntries
\* the keys of row.rawValue, in the order of Object.entries
RawKeys == << "Date", "Amount", "Credit", "Debit", "Memo" >>

RawValues == { "", "12.50" }

\* csvConfig: << >> for null, << config >> otherwise
CSVConfigs ==
  { << >> } \cup
  { << [columns |-> [credit |-> [target |-> c], debit |-> [target |-> d],
                     date |-> [target |-> "Date"]]] >> :
      c \in { "Credit", "Amount" }, d \in { "Debit", "Amount" } }

\* Object.entries(row.rawValue)
ObjectEntries(rv) == [i \in 1..Len(RawKeys) |-> << RawKeys[i], rv[RawKeys[i]] >>]

\* lodash isEmpty of a string
isEmpty(value) == value = ""

\* the filter without the debit column
filterRawValueEntriesNoDebit(entry, cfg) ==
  IF isEmpty(entry[2]) THEN FALSE
  ELSE IF cfg # << >>
          /\ entry[1] \in { cfg[1].columns.credit.target,
                            cfg[1].columns.date.target }
       THEN FALSE
       ELSE TRUE

filterRawValueEntries(entry, cfg) ==
  IF isEmpty(entry[2]) THEN FALSE
  ELSE IF cfg # << >>
          /\ entry[1] \in { cfg[1].columns.credit.target,
                            cfg[1].columns.debit.target,
                            cfg[1].columns.date.target }
       THEN FALSE
       ELSE TRUE

\* Object.entries(row.rawValue).filter(entry => filterRawValueEntries(...))
RawValueList(rv, cfg) ==
  LET Keep(entry) == filterRawValueEntries(entry, cfg)
  IN SelectSeq(ObjectEntries(rv), Keep)

\* the list before it is rendered: an entry the filter never lets through
NotRendered == << << "", "" >> >>

\* the orders the lookup service returns for a status filter
Matching(f) ==
  { c \in Candidates : f = "ANY" \/ c.status = f }

\* contributions={data?.account?.orders?.nodes ?? []}
contributions == IF query.state = "data" THEN query.nodes ELSE {}

\* !selectedContribution?.status || selectedContribution.status === PENDING
NextShown ==
  selectedContribution.status = NoStatus \/ selectedContribution.status = PENDING

InFlight == { i \in 1..Len(requests) : requests[i].state = "inflight" }

\* the dialog is mounted until the parent's onClose has run
Open == closed = 0

\* one outward call: what is called, and the handler that calls it
Call(op, by) == [op |-> op, by |-> by]

\* ConfirmContributionForm: the form surfaces the error of a failed
\* confirmation itself, before it calls onFailure
FormSurfacesError(cs) == Append(cs, Call("error", "ConfirmContributionForm"))

\* ui/Button: a button that is disabled or loading does not fire onClick
\* (nor submit its form)
ButtonClickable(disabled, loading) == ~disabled /\ ~loading

DialogInit ==
  /\ selectedContribution = Null
  /\ isConfirming = FALSE
  /\ isSubmitting = FALSE
  /\ statusFilter = "PENDING"
  /\ query = [state |-> "loading", nodes |-> {}]
  /\ requests = << >>
  /\ rowOrder = Null
  /\ stats0 \in [processed : 0..MaxInitCount, orders : 0..MaxInitCount]
  /\ stats = stats0
  /\ toasts = 0
  /\ closed = 0
  /\ calls = << >>

\* the dialog opened for a row: the default amount filter and the raw-value
\* list are those of the first render
Init ==
  /\ DialogInit
  /\ valueInCents = 123
  /\ amountFilter = getAmountRangeFilter(valueInCents)
  /\ rawValue = [k \in { RawKeys[i] : i \in 1..Len(RawKeys) } |-> "12.50"]
  /\ csvConfig = << >>
  /\ rawValueList = RawValueList(rawValue, csvConfig)

\* ------------------------------------------------------ candidate query
\* a filter change that drops the selection
SetFilterClearsSelection(f) ==
  /\ Open /\ ~isConfirming
  /\ f # statusFilter
  /\ statusFilter' = f
  /\ query' = [state |-> "loading", nodes |-> {}]
  /\ selectedContribution' = Null
  /\ UNCHANGED << isConfirming, isSubmitting, requests, rowOrder, stats,
                  stats0, toasts, closed >>
  /\ UNCHANGED fnVars
  /\ UNCHANGED calls

\* Filterbar: a filter change re-issues the query with new variables
SetFilter(f) ==
  /\ Open /\ ~isConfirming
  /\ f # statusFilter
  /\ statusFilter' = f
  /\ query' = [state |-> "loading", nodes |-> {}]
  /\ UNCHANGED << selectedContribution, isConfirming, isSubmitting, requests,
                  rowOrder, stats, stats0, toasts, closed >>
  /\ UNCHANGED fnVars
  /\ UNCHANGED calls

\* useQuery: the query is issued again with the same variables
Refetch ==
  /\ Open
  /\ query.state # "loading"
  /\ query' = [state |-> "loading", nodes |-> {}]
  /\ UNCHANGED << selectedContribution, isConfirming, isSubmitting,
                  statusFilter, requests, rowOrder, stats, stats0, toasts,
                  closed >>
  /\ UNCHANGED fnVars
  /\ UNCHANGED calls

QueryData ==
  /\ Open
  /\ query.state = "loading"
  /\ query' = [state |-> "data", nodes |-> Matching(statusFilter)]
  /\ UNCHANGED << selectedContribution, isConfirming, isSubmitting,
                  statusFilter, requests, rowOrder, stats, stats0, toasts,
                  closed >>
  /\ UNCHANGED fnVars
  /\ UNCHANGED calls

QueryError ==
  /\ Open
  /\ query.state = "loading"
  /\ query' = [state |-> "error", nodes |-> {}]
  /\ UNCHANGED << selectedContribution, isConfirming, isSubmitting,
                  statusFilter, requests, rowOrder, stats, stats0, toasts,
                  closed >>
  /\ UNCHANGED fnVars
  /\ UNCHANGED calls

\* ------------------------------------------------------- selection
\* SuggestedContributionsTable: clicking the row of contribution c calls
\* setSelectedContribution with c
TableSelection(c) == c

\* a table whose rows toggle: clicking the selected row deselects it
SelectToggle(c) ==
  /\ Open /\ ~isConfirming
  /\ query.state # "error"
  /\ c \in contributions
  /\ selectedContribution' =
       IF selectedContribution = c THEN Null ELSE TableSelection(c)
  /\ UNCHANGED << isConfirming, isSubmitting, statusFilter, query, requests,
                  rowOrder, stats, stats0, toasts, closed >>
  /\ UNCHANGED fnVars
  /\ UNCHANGED calls

\* SuggestedContributionsTable, rendered in Browsing when there is no error
Select(c) ==
  /\ Open /\ ~isConfirming
  /\ query.state # "error"
  /\ c \in contributions
  /\ selectedContribution' = TableSelection(c)
  /\ UNCHANGED << isConfirming, isSubmitting, statusFilter, query, requests,
                  rowOrder, stats, stats0, toasts, closed >>
  /\ UNCHANGED fnVars
  /\ UNCHANGED calls

\* the Next button without its disabled attribute
NextClickNotDisabled ==
  /\ Open /\ ~isConfirming
  /\ NextShown
  /\ isConfirming' = TRUE
  /\ UNCHANGED << selectedContribution, isSubmitting, statusFilter, query,
                  requests, rowOrder, stats, stats0, toasts, closed >>
  /\ UNCHANGED fnVars
  /\ UNCHANGED calls

\* <Button disabled={!selectedContribution} onClick={() => setIsConfirming(true)}>
NextClick ==
  /\ Open /\ ~isConfirming
  /\ NextShown
  /\ IF ButtonClickable(selectedContribution = Null, FALSE)
       THEN isConfirming' = TRUE
       ELSE isConfirming' = isConfirming
  /\ UNCHANGED << selectedContribution, isSubmitting, statusFilter, query,
                  requests, rowOrder, stats, stats0, toasts, closed >>
  /\ UNCHANGED fnVars
  /\ UNCHANGED calls

\* a Back button that also drops the selection
BackClearsSelection ==
  /\ Open /\ isConfirming
  /\ isConfirming' = FALSE
  /\ selectedContribution' = Null
  /\ UNCHANGED << isSubmitting, statusFilter, query, requests, rowOrder,
                  stats, stats0, toasts, closed >>
  /\ UNCHANGED fnVars
  /\ UNCHANGED calls

\* <Button variant="outline" onClick={() => setIsConfirming(false)}>
Back ==
  /\ Open /\ isConfirming
  /\ isConfirming' = FALSE
  /\ UNCHANGED << selectedContribution, isSubmitting, statusFilter, query,
                  requests, rowOrder, stats, stats0, toasts, closed >>
  /\ UNCHANGED fnVars
  /\ UNCHANGED calls

\* <Button variant="outline" onClick={onClose}> of the Browsing footer
Cancel ==
  /\ Open /\ ~isConfirming
  /\ closed' = closed + 1
  /\ UNCHANGED << selectedContribution, isConfirming, isSubmitting,
                  statusFilter, query, requests, rowOrder, stats, stats0,
                  toasts >>
  /\ UNCHANGED fnVars
  /\ calls' = Append(calls, Call("onClose", "Cancel"))

\* a dialog that can be dismissed in the Browsing view only
OpenChangeBrowsingOnly ==
  /\ Open /\ ~isConfirming
  /\ closed' = closed + 1
  /\ UNCHANGED << selectedContribution, isConfirming, isSubmitting,
                  statusFilter, query, requests, rowOrder, stats, stats0,
                  toasts >>
  /\ UNCHANGED fnVars
  /\ calls' = Append(calls, Call("onClose", "onOpenChange"))

\* <Dialog open onOpenChange={onClose}>: dismissal, in either view
OpenChange ==
  /\ Open
  /\ closed' = closed + 1
  /\ UNCHANGED << selectedContribution, isConfirming, isSubmitting,
                  statusFilter, query, requests, rowOrder, stats, stats0,
                  toasts >>
  /\ UNCHANGED fnVars
  /\ calls' = Append(calls, Call("onClose", "onOpenChange"))

\* ------------------------------------------------- path 1: confirm form
\* submit of ConfirmContributionForm; its button has loading={isSubmitting}
\* onSubmit={() => setIsSubmitting(true)}
SubmitConfirm ==
  /\ Open /\ isConfirming
  /\ ButtonClickable(FALSE, isSubmitting)
  /\ Len(requests) < MaxRequests
  /\ isSubmitting' = TRUE
  /\ requests' = Append(requests,
       [kind |-> "confirm", order |-> selectedContribution,
        state |-> "inflight"])
  /\ UNCHANGED << selectedContribution, isConfirming, statusFilter, query,
                  rowOrder, stats, stats0, toasts, closed >>
  /\ UNCHANGED fnVars
  /\ UNCHANGED calls

\* onSuccess reading the selection of the current render, not of the submit
ConfirmSuccessCurrentSelection(i) ==
  /\ i \in InFlight
  /\ requests[i].kind = "confirm"
  /\ requests' = [requests EXCEPT ![i].state = "ok"]
  /\ rowOrder' = selectedContribution
  /\ stats' = [stats EXCEPT !.processed = @ + 1, !.orders = @ + 1]
  /\ closed' = closed + 1
  /\ UNCHANGED << selectedContribution, isConfirming, isSubmitting,
                  statusFilter, query, stats0, toasts >>
  /\ UNCHANGED fnVars
  /\ calls' = calls \o << Call("cache.modify(row)", "onSuccess"),
                        Call("cache.modify(stats)", "onSuccess"),
                        Call("onClose", "onSuccess") >>

\* onSuccess that closes the modal before it updates the cache
ConfirmSuccessClosesFirst(i) ==
  /\ i \in InFlight
  /\ requests[i].kind = "confirm"
  /\ requests' = [requests EXCEPT ![i].state = "ok"]
  /\ rowOrder' = requests[i].order
  /\ stats' = [stats EXCEPT !.processed = @ + 1, !.orders = @ + 1]
  /\ closed' = closed + 1
  /\ UNCHANGED << selectedContribution, isConfirming, isSubmitting,
                  statusFilter, query, stats0, toasts >>
  /\ UNCHANGED fnVars
  /\ calls' = calls \o << Call("onClose", "onSuccess"),
                        Call("cache.modify(row)", "onSuccess"),
                        Call("cache.modify(stats)", "onSuccess") >>

\* onSuccess: cache.modify(row), cache.modify(stats), onClose()
ConfirmSuccess(i) ==
  /\ i \in InFlight
  /\ requests[i].kind = "confirm"
  /\ requests' = [requests EXCEPT ![i].state = "ok"]
  /\ rowOrder' = requests[i].order
  /\ stats' = [stats EXCEPT !.processed = @ + 1, !.orders = @ + 1]
  /\ closed' = closed + 1
  /\ UNCHANGED << selectedContribution, isConfirming, isSubmitting,
                  statusFilter, query, stats0, toasts >>
  /\ UNCHANGED fnVars
  /\ calls' = calls \o << Call("cache.modify(row)", "onSuccess"),
                        Call("cache.modify(stats)", "onSuccess"),
                        Call("onClose", "onSuccess") >>

\* onFailure that leaves the flag set
ConfirmFailureNoReset(i) ==
  /\ i \in InFlight
  /\ requests[i].kind = "confirm"
  /\ requests' = [requests EXCEPT ![i].state = "fail"]
  /\ UNCHANGED << selectedContribution, isConfirming, isSubmitting,
                  statusFilter, query, rowOrder, stats, stats0, toasts,
                  closed >>
  /\ UNCHANGED fnVars
  /\ calls' = FormSurfacesError(calls)

\* onFailure that also closes the dialog
ConfirmFailureCloses(i) ==
  /\ i \in InFlight
  /\ requests[i].kind = "confirm"
  /\ requests' = [requests EXCEPT ![i].state = "fail"]
  /\ isSubmitting' = FALSE
  /\ closed' = closed + 1
  /\ UNCHANGED << selectedContribution, isConfirming, statusFilter, query,
                  rowOrder, stats, stats0, toasts >>
  /\ UNCHANGED fnVars
  /\ calls' = Append(FormSurfacesError(calls), Call("onClose", "onFailure"))

\* onFailure={() => setIsSubmitting(false)}
ConfirmFailure(i) ==
  /\ i \in InFlight
  /\ requests[i].kind = "confirm"
  /\ requests' = [requests EXCEPT ![i].state = "fail"]
  /\ isSubmitting' = FALSE
  /\ UNCHANGED << selectedContribution, isConfirming, statusFilter, query,
                  rowOrder, stats, stats0, toasts, closed >>
  /\ UNCHANGED fnVars
  /\ calls' = FormSurfacesError(calls)

\* --------------------------------------------- path 2: direct link (Save)
\* variables of the updateRows mutation
UpdateVariables ==
  [importId |-> ImportId,
   rows |-> << [id |-> RowId, order |-> [id |-> selectedContribution.id]] >>]

\* a Save button without loading={isSubmitting}
SaveNotGuarded ==
  /\ Open /\ ~isConfirming
  /\ ~NextShown
  /\ Len(requests) < MaxRequests
  /\ isSubmitting' = TRUE
  /\ requests' = Append(requests,
       [kind |-> "update", order |-> selectedContribution,
        variables |-> UpdateVariables, state |-> "inflight"])
  /\ UNCHANGED << selectedContribution, isConfirming, statusFilter, query,
                  rowOrder, stats, stats0, toasts, closed >>
  /\ UNCHANGED fnVars
  /\ UNCHANGED calls

\* a Save button shown for every selection, whatever its status
SaveAnyStatus ==
  /\ Open /\ ~isConfirming
  /\ selectedContribution # Null
  /\ ButtonClickable(FALSE, isSubmitting)
  /\ Len(requests) < MaxRequests
  /\ isSubmitting' = TRUE
  /\ requests' = Append(requests,
       [kind |-> "update", order |-> selectedContribution,
        variables |-> UpdateVariables, state |-> "inflight"])
  /\ UNCHANGED << selectedContribution, isConfirming, statusFilter, query,
                  rowOrder, stats, stats0, toasts, closed >>
  /\ UNCHANGED fnVars
  /\ UNCHANGED calls

\* Save onClick up to the await: setIsSubmitting(true); updateRows({...})
Save ==
  /\ Open /\ ~isConfirming
  /\ ~NextShown
  /\ ButtonClickable(FALSE, isSubmitting)
  /\ Len(requests) < MaxRequests
  /\ isSubmitting' = TRUE
  /\ requests' = Append(requests,
       [kind |-> "update", order |-> selectedContribution,
        variables |-> UpdateVariables, state |-> "inflight"])
  /\ UNCHANGED << selectedContribution, isConfirming, statusFilter, query,
                  rowOrder, stats, stats0, toasts, closed >>
  /\ UNCHANGED fnVars
  /\ UNCHANGED calls

\* the await returns: finally { onClose() }
UpdateSuccess(i) ==
  /\ i \in InFlight
  /\ requests[i].kind = "update"
  /\ requests' = [requests EXCEPT ![i].state = "ok"]
  /\ closed' = closed + 1
  /\ UNCHANGED << selectedContribution, isConfirming, isSubmitting,
                  statusFilter, query, rowOrder, stats, stats0, toasts >>
  /\ UNCHANGED fnVars
  /\ calls' = Append(calls, Call("onClose", "Save"))

\* onClose() moved from the finally block to the end of the try block
UpdateFailureStaysOpen(i) ==
  /\ i \in InFlight
  /\ requests[i].kind = "update"
  /\ requests' = [requests EXCEPT ![i].state = "fail"]
  /\ toasts' = toasts + 1
  /\ UNCHANGED << selectedContribution, isConfirming, isSubmitting,
                  statusFilter, query, rowOrder, stats, stats0, closed >>
  /\ UNCHANGED fnVars
  /\ calls' = Append(calls, Call("toast", "Save"))

\* a catch block that swallows the error
UpdateFailureSilent(i) ==
  /\ i \in InFlight
  /\ requests[i].kind = "update"
  /\ requests' = [requests EXCEPT ![i].state = "fail"]
  /\ closed' = closed + 1
  /\ UNCHANGED << selectedContribution, isConfirming, isSubmitting,
                  statusFilter, query, rowOrder, stats, stats0, toasts >>
  /\ UNCHANGED fnVars
  /\ calls' = Append(calls, Call("onClose", "Save"))

\* the await throws: catch { toast(...) } finally { onClose() }
UpdateFailure(i) ==
  /\ i \in InFlight
  /\ requests[i].kind = "update"
  /\ requests' = [requests EXCEPT ![i].state = "fail"]
  /\ toasts' = toasts + 1
  /\ closed' = closed + 1
  /\ UNCHANGED << selectedContribution, isConfirming, isSubmitting,
                  statusFilter, query, rowOrder, stats, stats0 >>
  /\ UNCHANGED fnVars
  /\ calls' = calls \o << Call("toast", "Save"), Call("onClose", "Save") >>

Next ==
  \/ \E f \in StatusFilters : SetFilter(f)
  \/ Refetch
  \/ QueryData
  \/ QueryError
  \/ \E c \in Candidates : Select(c)
  \/ NextClick
  \/ Back
  \/ Cancel
  \/ OpenChange
  \/ SubmitConfirm
  \/ \E i \in 1..MaxRequests : ConfirmSuccess(i)
  \/ \E i \in 1..MaxRequests : ConfirmFailure(i)
  \/ Save
  \/ \E i \in 1..MaxRequests : UpdateSuccess(i)
  \/ \E i \in 1..MaxRequests : UpdateFailure(i)

Spec == Init /\ [][Next]_vars

\* ------------------------------------- the pure functions on their own
\* defaultFilterValues: { amount: getAmountRangeFilter(row.amount.valueInCents) }
ComputeAmountFilter ==
  /\ amountFilter = NoFilter
  /\ amountFilter' = getAmountRangeFilter(valueInCents)
  /\ UNCHANGED << selectedContribution, isConfirming, isSubmitting,
                  statusFilter, query, requests, rowOrder, stats, stats0,
                  toasts, closed, calls, valueInCents, rawValue, csvConfig,
                  rawValueList >>

AmountInit ==
  /\ DialogInit
  /\ valueInCents \in Amounts
  /\ amountFilter = NoFilter
  /\ rawValue = [k \in { RawKeys[i] : i \in 1..Len(RawKeys) } |-> "12.50"]
  /\ csvConfig = << >>
  /\ rawValueList = NotRendered

AmountNext == ComputeAmountFilter

AmountSpec == AmountInit /\ [][AmountNext]_vars

\* the raw-value list of the "Imported data" box is rendered
RenderRawValues ==
  /\ rawValueList = NotRendered
  /\ rawValueList' = RawValueList(rawValue, csvConfig)
  /\ UNCHANGED << selectedContribution, isConfirming, isSubmitting,
                  statusFilter, query, requests, rowOrder, stats, stats0,
                  toasts, closed, calls, valueInCents, amountFilter, rawValue,
                  csvConfig >>

RawValueInit ==
  /\ DialogInit
  /\ valueInCents = 123
  /\ amountFilter = NoFilter
  /\ rawValue \in [{ RawKeys[i] : i \in 1..Len(RawKeys) } -> RawValues]
  /\ csvConfig \in CSVConfigs
  /\ rawValueList = NotRendered

RawValueNext == RenderRawValues

RawValueSpec == RawValueInit /\ [][RawValueNext]_vars

\* the promise of an updateRows request in flight settles
ResolveUpdate ==
  \E i \in 1..MaxRequests : UpdateSuccess(i) \/ UpdateFailure(i)

FairSpec == Spec /\ WF_vars(ResolveUpdate)

\* ------------------------------------------------------------ properties
Confirms == { i \in 1..Len(requests) : requests[i].kind = "confirm" }
Updates == { i \in 1..Len(requests) : requests[i].kind = "update" }
Succeeded == { i \in 1..Len(requests) : requests[i].state = "ok" }
Failed == { i \in 1..Len(requests) : requests[i].state = "fail" }

\* request i resolves in this step, to success / to failure
ResolvesOk(i) ==
  /\ i \in InFlight
  /\ requests'[i].state = "ok"

ResolvesFail(i) ==
  /\ i \in InFlight
  /\ requests'[i].state = "fail"

PendingOrUnset(c) == c.status = PENDING \/ c.status = NoStatus

\* C1: whenever isConfirming is true, selectedContribution is non-null and
\* its status is PENDING or unset.
C1_ConfirmingHasPendingSelection ==
  isConfirming =>
    /\ selectedContribution # Null
    /\ PendingOrUnset(selectedContribution)

C1_Witness ==
  /\ isConfirming
  /\ selectedContribution.status = PENDING
  /\ Failed # {}

\* C2: the stats counters processed and orders have each grown by exactly the
\* number of reconciliations that completed successfully, on either path.
C2_StatsCountEverySuccess ==
  /\ stats.processed = stats0.processed + Cardinality(Succeeded)
  /\ stats.orders = stats0.orders + Cardinality(Succeeded)

C4_AtMostOneInFlight ==
  /\ Cardinality(InFlight) <= 1
  /\ InFlight # {} => isSubmitting

C4_Witness ==
  /\ \E i \in InFlight : requests[i].kind = "confirm"
  /\ ~isConfirming
  /\ selectedContribution.status = PAID
  /\ closed = 0

\* C5: once onClose has been invoked, no later step invokes it again,
\* changes the cached row or the import stats, or shows a toast.
C5_ClosedIsTerminal ==
  [][closed > 0 => UNCHANGED << closed, rowOrder, stats, toasts >>]_vars

\* C6 (as stated): the Cancel button can be clicked in every state of the
\* open dialog, Browsing or Confirming.
C6_CancelInEveryState ==
  Open => ENABLED Cancel

\* C6 (amended): the dialog can be dismissed in every state of the open
\* dialog and the Cancel button can be clicked in Browsing; either step
\* invokes onClose once, issues and resolves no request, and leaves the
\* cached row's order and the import's stats as they were at opening.
C6_CancelHasNoSideEffects ==
  /\ [](Open => ENABLED OpenChange)
  /\ []((Open /\ ~isConfirming) => ENABLED Cancel)
  /\ [][(Cancel \/ OpenChange) =>
          /\ closed' = 1
          /\ requests' = requests
          /\ rowOrder' = Null
          /\ stats' = stats0]_vars

C6_Witness ==
  /\ closed = 1
  /\ isConfirming
  /\ InFlight # {}
  /\ rowOrder = Null
  /\ stats = stats0

\* every request went the path its order's status selects
PathByStatus ==
  /\ \A i \in Confirms :
       requests[i].order # Null /\ PendingOrUnset(requests[i].order)
  /\ \A i \in Updates :
       requests[i].order # Null /\ ~PendingOrUnset(requests[i].order)

\* C7 (as stated): every request went the path its order's status selects,
\* and no dialog instance issues both a confirm-contribution request and a
\* row-update request.
C7_NeverBothPaths ==
  /\ PathByStatus
  /\ ~(Confirms # {} /\ Updates # {})

\* C7 (amended): every request went the path its order's status selects; a
\* row-update request is issued only after every earlier confirm-contribution
\* request has failed and is the last request the dialog issues; at most one
\* request succeeds.
C7_OnePathPerCommit ==
  /\ PathByStatus
  /\ \A i \in Updates :
       /\ i = Len(requests)
       /\ \A j \in Confirms : requests[j].state = "fail"
  /\ Cardinality(Succeeded) <= 1

C7_Witness ==
  /\ Confirms # {}
  /\ \E i \in Updates : requests[i].state = "ok"

\* C8: when a confirm-contribution request succeeds, the cached row's order
\* becomes the candidate that request was submitted for, processed and orders
\* each grow by exactly 1, and onClose is invoked.
C8_ConfirmSuccessEffects ==
  [][\A i \in 1..Len(requests) :
       (ResolvesOk(i) /\ requests[i].kind = "confirm") =>
          /\ rowOrder' = requests[i].order
          /\ stats'.processed = stats.processed + 1
          /\ stats'.orders = stats.orders + 1
          /\ closed' = closed + 1]_vars

C8_Witness ==
  /\ \E i \in Succeeded :
       /\ requests[i].kind = "confirm"
       /\ rowOrder = requests[i].order
       /\ selectedContribution # requests[i].order
  /\ stats.processed = stats0.processed + 1
  /\ stats.orders = stats0.orders + 1
  /\ closed = 1

\* C9: a dialog issues at most one row-update request, its variables are
\* {importId, rows: [{id: row id, order: {id: id of the candidate selected at
\* the click}}]}, and once it is issued the dialog is eventually closed.
C9_DirectLinkRequestAndClose ==
  /\ [](Cardinality(Updates) <= 1)
  /\ [](\A i \in Updates :
          /\ requests[i].order \in Candidates
          /\ requests[i].variables =
               [importId |-> ImportId,
                rows |-> << [id |-> RowId,
                             order |-> [id |-> requests[i].order.id]] >>])
  /\ [][\A c \in Candidates :
          (selectedContribution = c /\ Len(requests') > Len(requests)
             /\ ~PendingOrUnset(c))
            => requests'[Len(requests')].order = c]_vars
  /\ ((\E i \in Updates : i \in InFlight) ~> (closed > 0))

C9_Witness ==
  /\ \E i \in Updates : requests[i].state = "fail"
  /\ closed = 1
  /\ toasts = 1

\* C10: when a confirm-contribution request fails, onClose is not invoked,
\* isConfirming and selectedContribution keep their values, and neither the
\* cached row's order nor the import's stats change.
C10_ConfirmFailureKeepsDialog ==
  [][\A i \in 1..Len(requests) :
       (ResolvesFail(i) /\ requests[i].kind = "confirm") =>
          UNCHANGED << closed, isConfirming, selectedContribution, rowOrder,
                       stats >>]_vars

C10_Witness ==
  /\ isConfirming
  /\ closed = 0
  /\ isSubmitting = FALSE
  /\ requests # << >>
  /\ requests[Len(requests)].kind = "confirm"
  /\ requests[Len(requests)].state = "fail"
  /\ requests[Len(requests)].order = selectedContribution
  /\ rowOrder = Null
  /\ stats = stats0

\* the calls that report a failure to the user
Reports == { k \in 1..Len(calls) : calls[k].op \in { "toast", "error" } }

\* C11: when a row-update request fails, exactly one toast is shown and then
\* onClose is invoked; when it succeeds no toast is shown; every failed
\* request of either path has been reported exactly once.
C11_UpdateFailureToastsThenCloses ==
  /\ [][\A i \in 1..Len(requests) :
          (ResolvesFail(i) /\ requests[i].kind = "update") =>
             /\ toasts' = toasts + 1
             /\ closed' = closed + 1
             /\ calls' = calls \o << Call("toast", "Save"),
                                     Call("onClose", "Save") >>]_vars
  /\ [][\A i \in 1..Len(requests) :
          (ResolvesOk(i) /\ requests[i].kind = "update") =>
             (toasts' = toasts /\ Reports' = Reports)]_vars
  /\ [](Cardinality(Reports) = Cardinality(Failed))

C11_Witness ==
  /\ \E i \in Failed : requests[i].kind = "update"
  /\ \E i \in Failed : requests[i].kind = "confirm"
  /\ toasts = 1
  /\ closed = 1

\* C12: every onClose invoked by onSuccess comes right after the row's order
\* and the import's stats were modified in the cache, in this order; in every
\* state where a confirmation has succeeded the stats are incremented.
C12_CacheModifiedBeforeClose ==
  /\ \A k \in 1..Len(calls) :
       calls[k] = Call("onClose", "onSuccess") =>
          /\ k >= 3
          /\ calls[k - 2] = Call("cache.modify(row)", "onSuccess")
          /\ calls[k - 1] = Call("cache.modify(stats)", "onSuccess")
  /\ (\E i \in Succeeded : requests[i].kind = "confirm") =>
          /\ \E k \in 1..Len(calls) : calls[k] = Call("onClose", "onSuccess")
          /\ stats.processed = stats0.processed + 1
          /\ stats.orders = stats0.orders + 1

C12_Witness ==
  /\ \E i \in Succeeded : requests[i].kind = "confirm"
  /\ calls # << >>
  /\ calls[Len(calls)] = Call("onClose", "onSuccess")
  /\ closed = 1

\* C13: while no candidate is selected, no step changes isConfirming or
\* isSubmitting or issues a request, and a click on Next changes nothing.
C13_NextWithoutSelectionIsNoOp ==
  [][selectedContribution = Null =>
       /\ isConfirming' = isConfirming
       /\ isSubmitting' = isSubmitting
       /\ requests' = requests
       /\ NextClick => UNCHANGED vars]_vars

C13_Witness ==
  /\ selectedContribution = Null
  /\ Open /\ ~isConfirming
  /\ contributions # {}
  /\ requests = << >>

\* C17: the selection is a single candidate or null; a select event makes
\* the selected candidate the one just selected and leaves the dialog in
\* Browsing; nothing but a select event in Browsing changes the selection.
C17_SingleLatestSelection ==
  /\ [](selectedContribution \in Candidates \cup {Null})
  /\ [][\A c \in Candidates :
          Select(c) => (selectedContribution' = c /\ ~isConfirming')]_vars
  /\ [][selectedContribution' # selectedContribution =>
          /\ Open /\ ~isConfirming /\ ~isConfirming'
          /\ selectedContribution' \in contributions]_vars

C17_Witness ==
  /\ Open /\ ~isConfirming
  /\ selectedContribution \in contributions
  /\ Cardinality(contributions) >= 2
  /\ Failed # {}
  /\ requests[1].order # selectedContribution

\* C19: the step that takes the dialog from Confirming back to Browsing
\* changes nothing but isConfirming: selection, isSubmitting, the cache, the
\* requests (in flight or resolved), toasts and onClose calls are unchanged.
C19_BackOnlyLeavesConfirming ==
  [][(isConfirming /\ ~isConfirming') =>
       UNCHANGED << selectedContribution, isSubmitting, rowOrder, stats,
                    requests, toasts, closed, calls, statusFilter >>]_vars

C19_Witness ==
  /\ Open /\ ~isConfirming
  /\ isSubmitting
  /\ \E i \in InFlight :
       requests[i].kind = "confirm" /\ requests[i].order = selectedContribution

\* C20: a step that changes the filter or the state of the candidate query
\* changes neither selectedContribution nor isConfirming, and in Browsing a
\* selected candidate can always be taken to Next or, unless a request is
\* pending, to Save, whatever the query returned.
C20_QueryNeverTouchesSelection ==
  /\ [][(query' # query \/ statusFilter' # statusFilter) =>
          UNCHANGED << selectedContribution, isConfirming >>]_vars
  /\ []((Open /\ ~isConfirming /\ selectedContribution # Null /\ NextShown)
          => ENABLED (NextClick /\ isConfirming'))
  /\ []((Open /\ ~isConfirming /\ ~NextShown /\ ~isSubmitting
           /\ Len(requests) < MaxRequests)
          => ENABLED Save)

C20_Witness ==
  /\ Open /\ ~isConfirming
  /\ selectedContribution.status = PAID
  /\ query.state = "error"
  /\ statusFilter = "PENDING"

\* C14 (as stated): getAmountRangeFilter(123) has gte = 100 and lte = 200,
\* and getAmountRangeFilter(123456) has gte = 100000 and lte = 200000.
C14_DocExamplesAsStated ==
  amountFilter # NoFilter =>
    /\ valueInCents = 123 => (amountFilter.gte = 100 /\ amountFilter.lte = 200)
    /\ valueInCents = 123456 =>
         (amountFilter.gte = 100000 /\ amountFilter.lte = 200000)

\* C14 (amended): getAmountRangeFilter(123) has gte = 0 and lte = 200, and
\* getAmountRangeFilter(123456) has gte = 0 and lte = 200000.
C14_DocExamples ==
  amountFilter # NoFilter =>
    /\ valueInCents = 123 => (amountFilter.gte = 0 /\ amountFilter.lte = 200)
    /\ valueInCents = 123456 =>
         (amountFilter.gte = 0 /\ amountFilter.lte = 200000)

C14_Witness ==
  /\ valueInCents = 123456
  /\ amountFilter # NoFilter
  /\ amountFilter.lte = 200000

\* C15: for every positive amount v, the filter has gte <= v <= lte and
\* neither bound is negative.
C15_RangeContainsAmount ==
  amountFilter # NoFilter =>
    /\ amountFilter.gte <= valueInCents
    /\ valueInCents <= amountFilter.lte
    /\ amountFilter.gte >= 0
    /\ amountFilter.lte >= 0

C15_Witness ==
  /\ amountFilter # NoFilter
  /\ valueInCents = 1000
  /\ amountFilter.gte < valueInCents
  /\ amountFilter.lte > valueInCents

\* C18: with k = floor(log10(v)), gte is the largest multiple of 10^k that is
\* <= 0.8 v and lte is the smallest multiple of 10^k that is >= 1.2 v; they
\* are floor(8v / 10^(k+1)) * 10^k and ceil(12v / 10^(k+1)) * 10^k.
C18_NearestMultiples ==
  amountFilter # NoFilter =>
    \E k \in 0..6 :
      /\ Pow10(k) <= valueInCents /\ valueInCents < Pow10(k + 1)
      /\ amountFilter.gte % Pow10(k) = 0
      /\ 10 * amountFilter.gte <= 8 * valueInCents
      /\ 10 * (amountFilter.gte + Pow10(k)) > 8 * valueInCents
      /\ amountFilter.lte % Pow10(k) = 0
      /\ 10 * amountFilter.lte >= 12 * valueInCents
      /\ 10 * (amountFilter.lte - Pow10(k)) < 12 * valueInCents
      /\ amountFilter.gte = ((8 * valueInCents) \div Pow10(k + 1)) * Pow10(k)
      /\ amountFilter.lte =
           (0 - ((0 - 12 * valueInCents) \div Pow10(k + 1))) * Pow10(k)

C18_Witness ==
  /\ amountFilter # NoFilter
  /\ valueInCents = 250
  /\ amountFilter.gte = 200
  /\ amountFilter.lte = 300

\* the keys csvConfig names as the credit, debit (amount) and date columns
ConfiguredColumns ==
  IF csvConfig = << >> THEN {}
  ELSE { csvConfig[1].columns.credit.target, csvConfig[1].columns.debit.target,
         csvConfig[1].columns.date.target }

\* C16: the rendered raw-value list has, once each, exactly the entries of
\* row.rawValue whose value is not empty and whose key is not a configured
\* credit, debit or date column.
C16_RawValueListExact ==
  rawValueList # NotRendered =>
    /\ { rawValueList[i] : i \in 1..Len(rawValueList) } =
         { << k, rawValue[k] >> :
             k \in { x \in DOMAIN rawValue :
                       rawValue[x] # "" /\ x \notin ConfiguredColumns } }
    /\ \A i, j \in 1..Len(rawValueList) :
         rawValueList[i] = rawValueList[j] => i = j

C16_Witness ==
  /\ rawValueList # NotRendered
  /\ csvConfig # << >>
  /\ rawValue["Debit"] # "" /\ rawValue["Memo"] # "" /\ rawValue["Credit"] = ""
  /\ "Debit" \in ConfiguredColumns
  /\ Len(rawValueList) >= 1
====
